---- MODULE Spec2Model ----
(***************************************************************************)
(* Model of the GroupManager bot (src/bot.py): the users/groups tables of  *)
(* the SQLite store, the chat platform the bot calls, and the command      *)
(* handlers as coroutines that run from one await to the next.             *)
(*                                                                         *)
(* One chat (one group_id) is modelled, so a users row is keyed by its     *)
(* user_id.  A handler step is the completion of the await named by its pc *)
(* followed by the synchronous code up to the next await.  A reply_text    *)
(* that ends a handler is recorded in the step that issues it.             *)
(***************************************************************************)
EXTENDS Integers, Sequences, FiniteSets, TLC

\* ------------------------------------------------------------------ bounds
MaxWarnings == 4      \* no warn request is dispatched at a target with this many warnings
MaxPoints == 1        \* no plain message is dispatched for a sender with this many points
NumHandlers == 2      \* handlers in flight at once in the concurrent specification

\* ------------------------------------------------------- program constants
WarnThreshold == 3
DefaultMuteMinutes == 10

Users == {1, 2}
Handlers == 1..NumHandlers

\* ---------------------------------------------------------- pure functions
\* str.lower() on the argument spellings the model sends
Lower(s) ==
    CASE s = "Owner" -> "owner"
      [] s = "ADMIN" -> "admin"
      [] OTHER -> s

\* variant: the platform's creator status ranked above the stored owner role
get_role_priority_creator5(role) ==
    LET r == Lower(role) IN
    CASE r = "owner" -> 4
      [] r = "creator" -> 5
      [] r = "superadmin" -> 3
      [] r = "administrator" -> 3
      [] r = "admin" -> 3
      [] r = "moderator" -> 2
      [] r = "member" -> 1
      [] r = "restricted" -> 0
      [] OTHER -> 1

\* variant: moderator left out of the table, it falls to the default
get_role_priority_no_moderator(role) ==
    LET r == Lower(role) IN
    CASE r = "owner" -> 4
      [] r = "creator" -> 4
      [] r = "superadmin" -> 3
      [] r = "administrator" -> 3
      [] r = "admin" -> 3
      [] r = "member" -> 1
      [] r = "restricted" -> 0
      [] OTHER -> 1

\* variant: an unknown role gets the lowest priority instead of member's
get_role_priority_unknown0(role) ==
    LET r == Lower(role) IN
    CASE r = "owner" -> 4
      [] r = "creator" -> 4
      [] r = "superadmin" -> 3
      [] r = "administrator" -> 3
      [] r = "admin" -> 3
      [] r = "moderator" -> 2
      [] r = "member" -> 1
      [] r = "restricted" -> 0
      [] OTHER -> 0

get_role_priority(role) ==
    LET r == Lower(role) IN
    CASE r = "owner" -> 4
      [] r = "creator" -> 4
      [] r = "superadmin" -> 3
      [] r = "administrator" -> 3
      [] r = "admin" -> 3
      [] r = "moderator" -> 2
      [] r = "member" -> 1
      [] r = "restricted" -> 0
      [] OTHER -> 1

\* int(): the decimal strings parse, anything else raises ValueError
NumericTokens == {"-1", "0", "1", "2", "5"}
IsNumeric(s) == s \in NumericTokens
int(s) ==
    CASE s = "-1" -> -1
      [] s = "0" -> 0
      [] s = "1" -> 1
      [] s = "2" -> 2
      [] s = "5" -> 5

valid_roles == {"owner", "administrator", "admin", "moderator", "member"}

\* variant: the lookup table extended down to 'restricted', no floor at 'member'
demote_role_nofloor(new_priority) ==
    CASE new_priority = 4 -> "owner"
      [] new_priority = 3 -> "administrator"
      [] new_priority = 2 -> "moderator"
      [] new_priority = 1 -> "member"
      [] OTHER -> "restricted"

\* the role name demote looks up for a priority, 'member' when none matches
demote_role(new_priority) ==
    CASE new_priority = 4 -> "owner"
      [] new_priority = 3 -> "administrator"
      [] new_priority = 2 -> "moderator"
      [] new_priority = 1 -> "member"
      [] OTHER -> "member"

\* ------------------------------------------------------------------- state
VARIABLES
    groups,     \* TRUE when the groups table holds the chat's row
    users,      \* the users table: user_id -> [role, warnings, points], rows only
    tgStatus,   \* the platform's ChatMember.status of each user
    banned,     \* users the platform has banned on the bot's request
    muted,      \* user_id -> minutes of the restriction the platform applied
    lockdown,   \* TRUE when the platform's chat permissions forbid sending
    h           \* handler coroutines: pc, the update's command, sender, args, locals,
                \* the replies sent (msgs) and the errors check_admin logged (log)

dbvars == <<groups, users>>
platform == <<tgStatus, banned, muted, lockdown>>
vars == <<groups, users, tgStatus, banned, muted, lockdown, h>>

IdleHandler ==
    [pc |-> "idle", cmd |-> "", actor |-> 0, args |-> <<>>,
     uid |-> 0, n |-> 0, role |-> "", result |-> "", msgs |-> <<>>, log |-> <<>>]

\* platform statuses of the two users at start; it does not change afterwards
StatusConfigs ==
    { <<"creator", "administrator">>, <<"creator", "member">>,
      <<"administrator", "restricted">> }

Init ==
    /\ groups = FALSE
    /\ users = [u \in {} |-> 0]
    /\ tgStatus \in StatusConfigs
    /\ banned = {}
    /\ muted = [u \in {} |-> 0]
    /\ lockdown = FALSE
    /\ h = [hh \in Handlers |-> IdleHandler]

\* ------------------------------------------------------------ SQL statements
HasRow(tbl, u) == u \in DOMAIN tbl

\* variant: INSERT OR REPLACE, an existing row is replaced by the defaults
InsertOrIgnoreUser_replace(tbl, u) ==
    [x \in DOMAIN tbl \cup {u} |->
        IF x = u THEN [role |-> "member", warnings |-> 0, points |-> 0]
        ELSE tbl[x]]

\* INSERT OR IGNORE INTO users (user_id, group_id, username, joined_at):
\* role and warnings and points take the column defaults
InsertOrIgnoreUser(tbl, u) ==
    IF HasRow(tbl, u) THEN tbl
    ELSE [x \in DOMAIN tbl \cup {u} |->
            IF x = u THEN [role |-> "member", warnings |-> 0, points |-> 0]
            ELSE tbl[x]]

\* variant: an upsert, a missing row is created with one warning
UpdateWarnings_upsert(tbl, u) ==
    IF HasRow(tbl, u) THEN [tbl EXCEPT ![u].warnings = @ + 1]
    ELSE [x \in DOMAIN tbl \cup {u} |->
            IF x = u THEN [role |-> "member", warnings |-> 1, points |-> 0]
            ELSE tbl[x]]

\* UPDATE users SET warnings = warnings + 1 WHERE user_id = ? AND group_id = ?
UpdateWarnings(tbl, u) ==
    IF HasRow(tbl, u) THEN [tbl EXCEPT ![u].warnings = @ + 1] ELSE tbl

\* UPDATE users SET points = points + 1 WHERE user_id=? AND group_id=?
UpdatePoints(tbl, u) ==
    IF HasRow(tbl, u) THEN [tbl EXCEPT ![u].points = @ + 1] ELSE tbl

\* UPDATE users SET role=? WHERE user_id=? AND group_id=?
UpdateRole(tbl, u, r) ==
    IF HasRow(tbl, u) THEN [tbl EXCEPT ![u].role = r] ELSE tbl

\* ------------------------------------------------------------ handler steps
\* variant: any present chat member passes
check_admin_member(actor, ok) ==
    ok /\ tgStatus[actor] \in {"administrator", "creator", "member"}

\* variant: a lookup that raises lets the sender through
check_admin_fail_open(actor, ok) ==
    ~ok \/ tgStatus[actor] \in {"administrator", "creator"}

\* an await on get_chat_member answers with the status (ok) or raises
check_admin(actor, ok) == ok /\ tgStatus[actor] \in {"administrator", "creator"}

\* get_user_role's fallback for a sender without a row: the platform status,
\* or "member" when the lookup raises
fallback_role(actor, ok) == IF ok THEN tgStatus[actor] ELSE "member"

\* get_user_role: the stored role when the sender has a row, else the fallback
get_user_role(actor, ok) ==
    IF HasRow(users, actor) THEN users[actor].role ELSE fallback_role(actor, ok)

\* the handler returns after replying with the message kind m
Finish(hh, m) ==
    h' = [h EXCEPT ![hh].pc = "done", ![hh].result = m, ![hh].msgs = Append(@, m)]

\* check_admin answered False, after logging the error when the lookup raised
\* (ok is FALSE): the handler replies that admin privileges are required and
\* returns
Deny(hh, ok) ==
    h' = [h EXCEPT ![hh].pc = "done", ![hh].result = "InsufficientPrivilege",
                   ![hh].msgs = Append(@, "InsufficientPrivilege"),
                   ![hh].log = IF ok THEN @ ELSE Append(@, "Admin check error")]

\* the handler returns without replying
Return(hh, res) ==
    h' = [h EXCEPT ![hh].pc = "done", ![hh].result = res]

\* an exception leaves the handler, no reply is sent
Raise(hh) == Return(hh, "Exception")

NewUpdate(cmd, actor, args) ==
    [pc |-> IF cmd \in {"start", "message"} THEN "entry" ELSE "check_admin",
     cmd |-> cmd, actor |-> actor, args |-> args,
     uid |-> 0, n |-> 0, role |-> "", result |-> "", msgs |-> <<>>, log |-> <<>>]

\* cmd_start: register the group and the sender, then reply
cmd_start(hh) ==
    /\ h[hh].pc = "entry"
    /\ h[hh].cmd = "start"
    /\ groups' = TRUE
    /\ users' = InsertOrIgnoreUser(users, h[hh].actor)
    /\ Finish(hh, "Welcome")
    /\ UNCHANGED platform

\* handle_message: the users insert violates the foreign key while the chat
\* has no groups row; the messages insert always fails on its foreign key
\* to the non-unique users.user_id, after the row and the point are committed
handle_message(hh) ==
    /\ h[hh].pc = "entry"
    /\ h[hh].cmd = "message"
    /\ IF ~groups /\ ~HasRow(users, h[hh].actor)
       THEN users' = users
       ELSE users' = UpdatePoints(InsertOrIgnoreUser(users, h[hh].actor), h[hh].actor)
    /\ Raise(hh)
    /\ UNCHANGED <<groups, platform>>

\* variant: the rank check lets the sender's own level through
PromoteDecide_own_level(hh, uid, new_role, current_user_role) ==
    IF get_role_priority(new_role) > get_role_priority(current_user_role)
    THEN /\ h' = [h EXCEPT ![hh].pc = "done", ![hh].uid = uid, ![hh].role = current_user_role,
                           ![hh].result = "RankConflict", ![hh].msgs = Append(@, "RankConflict")]
         /\ users' = users
    ELSE /\ users' = UpdateRole(users, uid, new_role)
         /\ h' = [h EXCEPT ![hh].pc = "done", ![hh].uid = uid, ![hh].role = current_user_role,
                           ![hh].result = "Ok", ![hh].msgs = Append(@, "Promoted")]

\* variant: no rank check, every valid role is written
PromoteDecide_unchecked(hh, uid, new_role, current_user_role) ==
    /\ users' = UpdateRole(users, uid, new_role)
    /\ h' = [h EXCEPT ![hh].pc = "done", ![hh].uid = uid, ![hh].role = current_user_role,
                      ![hh].result = "Ok", ![hh].msgs = Append(@, "Promoted")]

\* variant: the rank check uses the sender's platform status, not its role
PromoteDecide_status_rank(hh, uid, new_role, current_user_role) ==
    IF get_role_priority(new_role) >= get_role_priority(tgStatus[h[hh].actor])
    THEN /\ h' = [h EXCEPT ![hh].pc = "done", ![hh].uid = uid, ![hh].role = current_user_role,
                           ![hh].result = "RankConflict", ![hh].msgs = Append(@, "RankConflict")]
         /\ users' = users
    ELSE /\ users' = UpdateRole(users, uid, new_role)
         /\ h' = [h EXCEPT ![hh].pc = "done", ![hh].uid = uid, ![hh].role = current_user_role,
                           ![hh].result = "Ok", ![hh].msgs = Append(@, "Promoted")]

\* the rank check and the write of cmd_promote, given the sender's role
PromoteDecide(hh, uid, new_role, current_user_role) ==
    IF get_role_priority(new_role) >= get_role_priority(current_user_role)
    THEN /\ h' = [h EXCEPT ![hh].pc = "done", ![hh].uid = uid, ![hh].role = current_user_role,
                           ![hh].result = "RankConflict", ![hh].msgs = Append(@, "RankConflict")]
         /\ users' = users
    ELSE /\ users' = UpdateRole(users, uid, new_role)
         /\ h' = [h EXCEPT ![hh].pc = "done", ![hh].uid = uid, ![hh].role = current_user_role,
                           ![hh].result = "Ok", ![hh].msgs = Append(@, "Promoted")]

cmd_promote(hh) ==
    /\ h[hh].pc = "check_admin"
    /\ h[hh].cmd = "promote"
    /\ \E ok \in BOOLEAN :
        LET args == h[hh].args IN
        IF ~check_admin(h[hh].actor, ok)
        THEN Deny(hh, ok) /\ users' = users
        ELSE IF Len(args) < 2
        THEN Finish(hh, "Usage") /\ users' = users
        ELSE IF ~IsNumeric(args[1])
        THEN Raise(hh) /\ users' = users
        ELSE IF Lower(args[2]) \notin valid_roles
        THEN Finish(hh, "InvalidRole") /\ users' = users
        ELSE IF HasRow(users, h[hh].actor)
        THEN PromoteDecide(hh, int(args[1]), Lower(args[2]), users[h[hh].actor].role)
        ELSE /\ h' = [h EXCEPT ![hh].pc = "get_user_role", ![hh].uid = int(args[1])]
             /\ users' = users
    /\ UNCHANGED <<groups, platform>>

\* cmd_promote resumes from get_user_role's platform lookup
get_user_role_promote(hh) ==
    /\ h[hh].pc = "get_user_role"
    /\ h[hh].cmd = "promote"
    /\ \E ok \in BOOLEAN :
        PromoteDecide(hh, h[hh].uid, Lower(h[hh].args[2]), fallback_role(h[hh].actor, ok))
    /\ UNCHANGED <<groups, platform>>

\* variant: the rank check lets a peer be demoted
DemoteDecide_peer(hh, uid, current_user_role) ==
    IF ~HasRow(users, uid)
    THEN /\ h' = [h EXCEPT ![hh].pc = "done", ![hh].uid = uid, ![hh].role = current_user_role,
                           ![hh].result = "UnknownMember", ![hh].msgs = Append(@, "UnknownMember")]
         /\ users' = users
    ELSE IF get_role_priority(users[uid].role) > get_role_priority(current_user_role)
    THEN /\ h' = [h EXCEPT ![hh].pc = "done", ![hh].uid = uid, ![hh].role = current_user_role,
                           ![hh].result = "RankConflict", ![hh].msgs = Append(@, "RankConflict")]
         /\ users' = users
    ELSE /\ users' = UpdateRole(users, uid, demote_role(get_role_priority(users[uid].role) - 1))
         /\ h' = [h EXCEPT ![hh].pc = "done", ![hh].uid = uid, ![hh].role = current_user_role,
                           ![hh].result = "Ok", ![hh].msgs = Append(@, "Demoted")]

\* variant: the target's role is read before the await on the sender's role,
\* so the check and the write may work on any role the target held earlier
DemoteDecide_stale_read(hh, uid, current_user_role) ==
    IF ~HasRow(users, uid)
    THEN /\ h' = [h EXCEPT ![hh].pc = "done", ![hh].uid = uid, ![hh].role = current_user_role,
                           ![hh].result = "UnknownMember", ![hh].msgs = Append(@, "UnknownMember")]
         /\ users' = users
    ELSE \E target_role \in {r \in {"administrator", "moderator", "member"} :
                                get_role_priority(r) >= get_role_priority(users[uid].role)} :
         IF get_role_priority(target_role) >= get_role_priority(current_user_role)
         THEN /\ h' = [h EXCEPT ![hh].pc = "done", ![hh].uid = uid, ![hh].role = current_user_role,
                                ![hh].result = "RankConflict", ![hh].msgs = Append(@, "RankConflict")]
              /\ users' = users
         ELSE /\ users' = UpdateRole(users, uid, demote_role(get_role_priority(target_role) - 1))
              /\ h' = [h EXCEPT ![hh].pc = "done", ![hh].uid = uid, ![hh].role = current_user_role,
                                ![hh].result = "Ok", ![hh].msgs = Append(@, "Demoted")]

\* the target lookup, the rank check and the write of cmd_demote
DemoteDecide(hh, uid, current_user_role) ==
    IF ~HasRow(users, uid)
    THEN /\ h' = [h EXCEPT ![hh].pc = "done", ![hh].uid = uid, ![hh].role = current_user_role,
                           ![hh].result = "UnknownMember", ![hh].msgs = Append(@, "UnknownMember")]
         /\ users' = users
    ELSE IF get_role_priority(users[uid].role) >= get_role_priority(current_user_role)
    THEN /\ h' = [h EXCEPT ![hh].pc = "done", ![hh].uid = uid, ![hh].role = current_user_role,
                           ![hh].result = "RankConflict", ![hh].msgs = Append(@, "RankConflict")]
         /\ users' = users
    ELSE /\ users' = UpdateRole(users, uid, demote_role(get_role_priority(users[uid].role) - 1))
         /\ h' = [h EXCEPT ![hh].pc = "done", ![hh].uid = uid, ![hh].role = current_user_role,
                           ![hh].result = "Ok", ![hh].msgs = Append(@, "Demoted")]

cmd_demote(hh) ==
    /\ h[hh].pc = "check_admin"
    /\ h[hh].cmd = "demote"
    /\ \E ok \in BOOLEAN :
        LET args == h[hh].args IN
        IF ~check_admin(h[hh].actor, ok)
        THEN Deny(hh, ok) /\ users' = users
        ELSE IF Len(args) < 1
        THEN Finish(hh, "Usage") /\ users' = users
        ELSE IF ~IsNumeric(args[1])
        THEN Raise(hh) /\ users' = users
        ELSE IF HasRow(users, h[hh].actor)
        THEN DemoteDecide(hh, int(args[1]), users[h[hh].actor].role)
        ELSE /\ h' = [h EXCEPT ![hh].pc = "get_user_role", ![hh].uid = int(args[1])]
             /\ users' = users
    /\ UNCHANGED <<groups, platform>>

get_user_role_demote(hh) ==
    /\ h[hh].pc = "get_user_role"
    /\ h[hh].cmd = "demote"
    /\ \E ok \in BOOLEAN :
        DemoteDecide(hh, h[hh].uid, fallback_role(h[hh].actor, ok))
    /\ UNCHANGED <<groups, platform>>

\* cmd_ban: the argument parsing sits inside the try, so a bad user id is
\* reported like a platform failure
cmd_ban(hh) ==
    /\ h[hh].pc = "check_admin"
    /\ h[hh].cmd = "ban"
    /\ \E ok \in BOOLEAN :
        LET args == h[hh].args IN
        IF ~check_admin(h[hh].actor, ok)
        THEN Deny(hh, ok)
        ELSE IF Len(args) < 1
        THEN Finish(hh, "Usage")
        ELSE IF ~IsNumeric(args[1])
        THEN Finish(hh, "Failed")
        ELSE h' = [h EXCEPT ![hh].pc = "ban_chat_member", ![hh].uid = int(args[1])]
    /\ UNCHANGED <<dbvars, platform>>

\* variant: a failed ban is logged and not reported
ban_chat_member_silent(hh) ==
    /\ h[hh].pc = "ban_chat_member"
    /\ h[hh].cmd = "ban"
    /\ \E ok \in BOOLEAN :
        IF ok
        THEN banned' = banned \cup {h[hh].uid} /\ Finish(hh, "Ok")
        ELSE banned' = banned /\ Return(hh, "Failed")
    /\ UNCHANGED <<dbvars, tgStatus, muted, lockdown>>

ban_chat_member(hh) ==
    /\ h[hh].pc = "ban_chat_member"
    /\ h[hh].cmd = "ban"
    /\ \E ok \in BOOLEAN :
        IF ok
        THEN banned' = banned \cup {h[hh].uid} /\ Finish(hh, "Ok")
        ELSE banned' = banned /\ Finish(hh, "Failed")
    /\ UNCHANGED <<dbvars, tgStatus, muted, lockdown>>

cmd_unban(hh) ==
    /\ h[hh].pc = "check_admin"
    /\ h[hh].cmd = "unban"
    /\ \E ok \in BOOLEAN :
        LET args == h[hh].args IN
        IF ~check_admin(h[hh].actor, ok)
        THEN Deny(hh, ok)
        ELSE IF Len(args) < 1
        THEN Finish(hh, "Usage")
        ELSE IF ~IsNumeric(args[1])
        THEN Raise(hh)
        ELSE h' = [h EXCEPT ![hh].pc = "unban_chat_member", ![hh].uid = int(args[1])]
    /\ UNCHANGED <<dbvars, platform>>

unban_chat_member(hh) ==
    /\ h[hh].pc = "unban_chat_member"
    /\ \E ok \in BOOLEAN :
        IF ok
        THEN banned' = banned \ {h[hh].uid} /\ Finish(hh, "Ok")
        ELSE banned' = banned /\ Finish(hh, "Failed")
    /\ UNCHANGED <<dbvars, tgStatus, muted, lockdown>>

cmd_mute(hh) ==
    /\ h[hh].pc = "check_admin"
    /\ h[hh].cmd = "mute"
    /\ \E ok \in BOOLEAN :
        LET args == h[hh].args IN
        IF ~check_admin(h[hh].actor, ok)
        THEN Deny(hh, ok)
        ELSE IF Len(args) < 1
        THEN Finish(hh, "Usage")
        ELSE IF ~IsNumeric(args[1])
        THEN Raise(hh)
        ELSE IF Len(args) > 1 /\ ~IsNumeric(args[2])
        THEN Raise(hh)
        ELSE h' = [h EXCEPT ![hh].pc = "restrict_chat_member", ![hh].uid = int(args[1]),
                            ![hh].n = IF Len(args) > 1 THEN int(args[2]) ELSE DefaultMuteMinutes]
    /\ UNCHANGED <<dbvars, platform>>

\* the platform records the restriction with until_date = now + n minutes
restrict_chat_member(hh) ==
    /\ h[hh].pc = "restrict_chat_member"
    /\ h[hh].cmd = "mute"
    /\ \E ok \in BOOLEAN :
        IF ok
        THEN /\ muted' = [x \in DOMAIN muted \cup {h[hh].uid} |->
                            IF x = h[hh].uid THEN h[hh].n ELSE muted[x]]
             /\ Finish(hh, "Ok")
        ELSE muted' = muted /\ Finish(hh, "Failed")
    /\ UNCHANGED <<dbvars, tgStatus, banned, lockdown>>

cmd_unmute(hh) ==
    /\ h[hh].pc = "check_admin"
    /\ h[hh].cmd = "unmute"
    /\ \E ok \in BOOLEAN :
        LET args == h[hh].args IN
        IF ~check_admin(h[hh].actor, ok)
        THEN Deny(hh, ok)
        ELSE IF Len(args) < 1
        THEN Finish(hh, "Usage")
        ELSE IF ~IsNumeric(args[1])
        THEN Raise(hh)
        ELSE h' = [h EXCEPT ![hh].pc = "unrestrict_chat_member", ![hh].uid = int(args[1])]
    /\ UNCHANGED <<dbvars, platform>>

unrestrict_chat_member(hh) ==
    /\ h[hh].pc = "unrestrict_chat_member"
    /\ \E ok \in BOOLEAN :
        IF ok
        THEN /\ muted' = [x \in DOMAIN muted \ {h[hh].uid} |-> muted[x]]
             /\ Finish(hh, "Ok")
        ELSE muted' = muted /\ Finish(hh, "Failed")
    /\ UNCHANGED <<dbvars, tgStatus, banned, lockdown>>

\* cmd_warn up to its first reply: the UPDATE, the commit and the SELECT run
\* without an await between them
cmd_warn(hh) ==
    /\ h[hh].pc = "check_admin"
    /\ h[hh].cmd = "warn"
    /\ \E ok \in BOOLEAN :
        LET args == h[hh].args IN
        IF ~check_admin(h[hh].actor, ok)
        THEN Deny(hh, ok) /\ users' = users
        ELSE IF Len(args) < 1
        THEN Finish(hh, "Usage") /\ users' = users
        ELSE IF ~IsNumeric(args[1])
        THEN Raise(hh) /\ users' = users
        ELSE LET uid == int(args[1]) IN
             /\ users' = UpdateWarnings(users, uid)
             /\ IF HasRow(users', uid)
                THEN h' = [h EXCEPT ![hh].pc = "reply_warn", ![hh].uid = uid,
                                    ![hh].n = users'[uid].warnings,
                                    ![hh].result = "Ok", ![hh].msgs = Append(@, "Warned")]
                ELSE h' = [h EXCEPT ![hh].pc = "done", ![hh].uid = uid,
                                    ![hh].result = "UnknownMember",
                                    ![hh].msgs = Append(@, "UnknownMember")]
    /\ UNCHANGED <<groups, platform>>

\* variant: the handler writes its own count back after the reply
reply_warn_writeback(hh) ==
    /\ h[hh].pc = "reply_warn"
    /\ IF h[hh].n >= WarnThreshold
       THEN h' = [h EXCEPT ![hh].pc = "ban_chat_member"]
       ELSE h' = [h EXCEPT ![hh].pc = "done"]
    /\ users' = [users EXCEPT ![h[hh].uid].warnings = h[hh].n]
    /\ UNCHANGED <<groups, platform>>

\* variant: escalation only above the threshold
reply_warn_above(hh) ==
    /\ h[hh].pc = "reply_warn"
    /\ IF h[hh].n > WarnThreshold
       THEN h' = [h EXCEPT ![hh].pc = "ban_chat_member"]
       ELSE h' = [h EXCEPT ![hh].pc = "done"]
    /\ UNCHANGED <<dbvars, platform>>

\* variant: escalation one warning early
reply_warn_early(hh) ==
    /\ h[hh].pc = "reply_warn"
    /\ IF h[hh].n >= WarnThreshold - 1
       THEN h' = [h EXCEPT ![hh].pc = "ban_chat_member"]
       ELSE h' = [h EXCEPT ![hh].pc = "done"]
    /\ UNCHANGED <<dbvars, platform>>

\* the warning reply has been sent: escalate or return
reply_warn(hh) ==
    /\ h[hh].pc = "reply_warn"
    /\ IF h[hh].n >= WarnThreshold
       THEN h' = [h EXCEPT ![hh].pc = "ban_chat_member"]
       ELSE h' = [h EXCEPT ![hh].pc = "done"]
    /\ UNCHANGED <<dbvars, platform>>

\* variant: a failed automatic ban takes the warning back
auto_ban_rollback(hh) ==
    /\ h[hh].pc = "ban_chat_member"
    /\ h[hh].cmd = "warn"
    /\ \E ok \in BOOLEAN :
        IF ok
        THEN /\ banned' = banned \cup {h[hh].uid}
             /\ users' = users
             /\ h' = [h EXCEPT ![hh].pc = "done", ![hh].result = "AutoBanned",
                               ![hh].msgs = Append(@, "AutoBanned")]
        ELSE /\ banned' = banned
             /\ users' = [users EXCEPT ![h[hh].uid].warnings = @ - 1]
             /\ h' = [h EXCEPT ![hh].pc = "done", ![hh].result = "AutoBanFailed"]
    /\ UNCHANGED <<groups, tgStatus, muted, lockdown>>

\* the automatic ban: a failure is logged and not reported
auto_ban(hh) ==
    /\ h[hh].pc = "ban_chat_member"
    /\ h[hh].cmd = "warn"
    /\ \E ok \in BOOLEAN :
        IF ok
        THEN /\ banned' = banned \cup {h[hh].uid}
             /\ h' = [h EXCEPT ![hh].pc = "done", ![hh].result = "AutoBanned",
                               ![hh].msgs = Append(@, "AutoBanned")]
        ELSE /\ banned' = banned
             /\ h' = [h EXCEPT ![hh].pc = "done", ![hh].result = "AutoBanFailed"]
    /\ UNCHANGED <<dbvars, tgStatus, muted, lockdown>>

cmd_lockdown(hh) ==
    /\ h[hh].pc = "check_admin"
    /\ h[hh].cmd = "lockdown"
    /\ \E ok \in BOOLEAN :
        LET args == h[hh].args IN
        IF ~check_admin(h[hh].actor, ok)
        THEN Deny(hh, ok)
        ELSE IF Len(args) < 1
        THEN Finish(hh, "Usage")
        ELSE IF args[1] \notin {"on", "off"}
        THEN Finish(hh, "Usage")
        ELSE h' = [h EXCEPT ![hh].pc = "set_chat_permissions"]
    /\ UNCHANGED <<dbvars, platform>>

set_chat_permissions(hh) ==
    /\ h[hh].pc = "set_chat_permissions"
    /\ \E ok \in BOOLEAN :
        IF ok
        THEN lockdown' = (h[hh].args[1] = "on") /\ Finish(hh, "Ok")
        ELSE lockdown' = lockdown /\ Finish(hh, "Failed")
    /\ UNCHANGED <<dbvars, tgStatus, banned, muted>>

\* ------------------------------------------------------------------ updates
TargetArgs == {"1", "2", "x"}
MinuteArgs == {"5", "0", "-1", "x"}
RoleArgs == {"owner", "Owner", "administrator", "ADMIN", "moderator", "member",
             "restricted", "vip"}

\* the argument lists of a command, over the given user ids, role names and minutes
ArgsOf(cmd, T, R, M) ==
    CASE cmd \in {"start", "message"} -> {<<>>}
      [] cmd \in {"ban", "unban", "unmute", "warn", "demote"} ->
            {<<>>} \cup {<<t>> : t \in T}
      [] cmd = "mute" ->
            {<<>>} \cup {<<t>> : t \in T} \cup {<<t, m>> : t \in T, m \in M}
      [] cmd = "promote" ->
            {<<>>} \cup {<<t>> : t \in T} \cup {<<t, r>> : t \in T, r \in R}
      [] cmd = "lockdown" -> {<<>>, <<"on">>, <<"off">>, <<"toggle">>}

\* the caps that keep the counters of the store finite
WithinBounds(cmd, actor, args) ==
    /\ cmd = "warn" /\ Len(args) > 0 /\ IsNumeric(args[1]) /\ HasRow(users, int(args[1]))
          => users[int(args[1])].warnings < MaxWarnings
    /\ cmd = "message" /\ HasRow(users, actor) => users[actor].points < MaxPoints

AllCommands ==
    {"start", "message", "ban", "unban", "mute", "unmute", "warn",
     "promote", "demote", "lockdown"}

\* the application takes the next update once the handler of the previous
\* one has returned (no concurrent_updates in the builder)
Dispatch(actor, cmd, args) ==
    /\ \A hh \in Handlers : h[hh].pc \in {"idle", "done"}
    /\ WithinBounds(cmd, actor, args)
    /\ h' = [h EXCEPT ![1] = NewUpdate(cmd, actor, args)]
    /\ UNCHANGED <<dbvars, platform>>

\* updates handled concurrently: any free handler takes the update
DispatchConcurrent(hh, actor, cmd, args) ==
    /\ h[hh].pc \in {"idle", "done"}
    /\ WithinBounds(cmd, actor, args)
    /\ h' = [h EXCEPT ![hh] = NewUpdate(cmd, actor, args)]
    /\ UNCHANGED <<dbvars, platform>>

\* ----------------------------------------------------------- specifications
\* /start and every administrative command, one update at a time, aimed at user 2
Next ==
    \/ \E actor \in Users, cmd \in AllCommands \ {"message"} :
          \E args \in ArgsOf(cmd, {"2", "x"}, {"moderator", "vip"}, {"x"}) :
             Dispatch(actor, cmd, args)
    \/ \E hh \in Handlers : cmd_start(hh)
    \/ \E hh \in Handlers : cmd_ban(hh)
    \/ \E hh \in Handlers : ban_chat_member(hh)
    \/ \E hh \in Handlers : cmd_unban(hh)
    \/ \E hh \in Handlers : unban_chat_member(hh)
    \/ \E hh \in Handlers : cmd_mute(hh)
    \/ \E hh \in Handlers : restrict_chat_member(hh)
    \/ \E hh \in Handlers : cmd_unmute(hh)
    \/ \E hh \in Handlers : unrestrict_chat_member(hh)
    \/ \E hh \in Handlers : cmd_warn(hh)
    \/ \E hh \in Handlers : reply_warn(hh)
    \/ \E hh \in Handlers : auto_ban(hh)
    \/ \E hh \in Handlers : cmd_promote(hh)
    \/ \E hh \in Handlers : get_user_role_promote(hh)
    \/ \E hh \in Handlers : cmd_demote(hh)
    \/ \E hh \in Handlers : get_user_role_demote(hh)
    \/ \E hh \in Handlers : cmd_lockdown(hh)
    \/ \E hh \in Handlers : set_chat_permissions(hh)

Spec == Init /\ [][Next]_vars

\* registration, promote and demote over every user id and role name
NextRoles ==
    \/ \E actor \in Users, cmd \in {"start", "promote", "demote"} :
          \E args \in ArgsOf(cmd, TargetArgs, RoleArgs, {}) :
             Dispatch(actor, cmd, args)
    \/ \E hh \in Handlers : cmd_start(hh)
    \/ \E hh \in Handlers : cmd_promote(hh)
    \/ \E hh \in Handlers : get_user_role_promote(hh)
    \/ \E hh \in Handlers : cmd_demote(hh)
    \/ \E hh \in Handlers : get_user_role_demote(hh)

SpecRoles == Init /\ [][NextRoles]_vars

\* registration and warn, one update at a time
NextWarn ==
    \/ \E actor \in Users, cmd \in {"start", "warn"} :
          \E args \in ArgsOf(cmd, TargetArgs, {}, {}) :
             Dispatch(actor, cmd, args)
    \/ \E hh \in Handlers : cmd_start(hh)
    \/ \E hh \in Handlers : cmd_warn(hh)
    \/ \E hh \in Handlers : reply_warn(hh)
    \/ \E hh \in Handlers : auto_ban(hh)

SpecWarn == Init /\ [][NextWarn]_vars

\* registration and warn with the handlers of several updates interleaved at
\* their awaits
NextConcurrent ==
    \/ \E hh \in Handlers, actor \in Users, cmd \in {"start", "warn"} :
          \E args \in ArgsOf(cmd, {"2"}, {}, {}) :
             DispatchConcurrent(hh, actor, cmd, args)
    \/ \E hh \in Handlers : cmd_start(hh)
    \/ \E hh \in Handlers : cmd_warn(hh)
    \/ \E hh \in Handlers : reply_warn(hh)
    \/ \E hh \in Handlers : auto_ban(hh)

SpecConcurrent == Init /\ [][NextConcurrent]_vars

\* the two registration paths, /start and plain messages, interleaved
NextEnsure ==
    \/ \E hh \in Handlers, actor \in Users, cmd \in {"start", "message"} :
          DispatchConcurrent(hh, actor, cmd, <<>>)
    \/ \E hh \in Handlers : cmd_start(hh)
    \/ \E hh \in Handlers : handle_message(hh)

SpecEnsure == Init /\ [][NextEnsure]_vars

\* get_role_priority on its own: each handler slot holds one call, its
\* argument in role and its return value in n
RoleStrings ==
    {"owner", "creator", "superadmin", "administrator", "admin", "moderator",
     "member", "restricted", "Owner", "ADMIN", "vip", "left", "kicked", ""}

PriorityCall(r) ==
    [pc |-> "call", cmd |-> "get_role_priority", actor |-> 0, args |-> <<>>,
     uid |-> 0, n |-> 0, role |-> r, result |-> "", msgs |-> <<>>, log |-> <<>>]

InitPriority ==
    /\ groups = FALSE
    /\ users = [u \in {} |-> 0]
    /\ tgStatus \in StatusConfigs
    /\ banned = {}
    /\ muted = [u \in {} |-> 0]
    /\ lockdown = FALSE
    /\ h \in [Handlers -> {PriorityCall(r) : r \in RoleStrings}]

priority_call(hh) ==
    /\ h[hh].pc = "call"
    /\ h[hh].cmd = "get_role_priority"
    /\ h' = [h EXCEPT ![hh].pc = "done", ![hh].n = get_role_priority(h[hh].role)]
    /\ UNCHANGED <<dbvars, platform>>

NextPriority == \E hh \in Handlers : priority_call(hh)

SpecPriority == InitPriority /\ [][NextPriority]_vars

\* promote and demote of user 2 with the handlers of several updates
\* interleaved at their awaits, /start registering the users in between
RoleUpdates ==
    { <<"start", <<>> >>, <<"promote", <<"2", "administrator">> >>, <<"demote", <<"2">> >> }

NextRolesConcurrent ==
    \/ \E hh \in Handlers, actor \in Users, upd \in RoleUpdates :
          DispatchConcurrent(hh, actor, upd[1], upd[2])
    \/ \E hh \in Handlers : cmd_start(hh)
    \/ \E hh \in Handlers : cmd_promote(hh)
    \/ \E hh \in Handlers : get_user_role_promote(hh)
    \/ \E hh \in Handlers : cmd_demote(hh)
    \/ \E hh \in Handlers : get_user_role_demote(hh)

SpecRolesConcurrent == Init /\ [][NextRolesConcurrent]_vars

\* mute and unmute over every user id and every duration argument
NextMute ==
    \/ \E actor \in Users, cmd \in {"mute", "unmute"} :
          \E args \in ArgsOf(cmd, TargetArgs, {}, MinuteArgs) :
             Dispatch(actor, cmd, args)
    \/ \E hh \in Handlers : cmd_mute(hh)
    \/ \E hh \in Handlers : restrict_chat_member(hh)
    \/ \E hh \in Handlers : cmd_unmute(hh)
    \/ \E hh \in Handlers : unrestrict_chat_member(hh)

SpecMute == Init /\ [][NextMute]_vars

\* every operation that reaches the store or the platform, plain messages
\* included, one update at a time
NextStore ==
    \/ \E actor \in Users, cmd \in AllCommands :
          \E args \in ArgsOf(cmd, {"2"}, {"owner", "administrator"}, {}) :
             Dispatch(actor, cmd, args)
    \/ \E hh \in Handlers : cmd_start(hh)
    \/ \E hh \in Handlers : handle_message(hh)
    \/ \E hh \in Handlers : cmd_ban(hh)
    \/ \E hh \in Handlers : ban_chat_member(hh)
    \/ \E hh \in Handlers : cmd_unban(hh)
    \/ \E hh \in Handlers : unban_chat_member(hh)
    \/ \E hh \in Handlers : cmd_mute(hh)
    \/ \E hh \in Handlers : restrict_chat_member(hh)
    \/ \E hh \in Handlers : cmd_unmute(hh)
    \/ \E hh \in Handlers : unrestrict_chat_member(hh)
    \/ \E hh \in Handlers : cmd_warn(hh)
    \/ \E hh \in Handlers : reply_warn(hh)
    \/ \E hh \in Handlers : auto_ban(hh)
    \/ \E hh \in Handlers : cmd_promote(hh)
    \/ \E hh \in Handlers : get_user_role_promote(hh)
    \/ \E hh \in Handlers : cmd_demote(hh)
    \/ \E hh \in Handlers : get_user_role_demote(hh)
    \/ \E hh \in Handlers : cmd_lockdown(hh)
    \/ \E hh \in Handlers : set_chat_permissions(hh)

SpecStore == Init /\ [][NextStore]_vars

\* ------------------------------------------------------------------- claims
AdminCommands ==
    {"ban", "unban", "mute", "unmute", "warn", "promote", "demote", "lockdown"}

\* the handler hh takes this step
Steps(hh) == h'[hh] # h[hh]

\* the handler hh returns in this step
Returns(hh) == h[hh].pc # "done" /\ h'[hh].pc = "done"

\* the update carries a well-formed target user id
HasTarget(hh) == Len(h[hh].args) >= 1 /\ IsNumeric(h[hh].args[1])

\* C1: a promote whose requested role has a priority at or above the priority
\* of the sender's role (the stored role, else the platform status) is denied,
\* whatever the two roles are, and the users table is left as it was.
C1_PromoteDeniedAtOrAboveOwnRank ==
    [][\A hh \in Handlers :
          ( /\ h[hh].cmd = "promote"
            /\ Steps(hh)
            /\ Len(h[hh].args) >= 2
            /\ IsNumeric(h[hh].args[1])
            /\ get_role_priority(h[hh].args[2])
                 >= get_role_priority(get_user_role(h[hh].actor, TRUE)) )
          => /\ users' = users
             /\ h'[hh].pc = "done" =>
                  h'[hh].result \in {"InsufficientPrivilege", "InvalidRole", "RankConflict"}
      ]_vars

\* a sender holding the stored role administrator asked for a role of its own
\* level under another spelling and was refused
C1_Witness ==
    \E hh \in Handlers :
        /\ h[hh].cmd = "promote"
        /\ h[hh].pc = "done"
        /\ h[hh].result = "RankConflict"
        /\ HasRow(users, h[hh].actor)
        /\ users[h[hh].actor].role = "administrator"
        /\ Len(h[hh].args) = 2
        /\ Lower(h[hh].args[2]) = "admin"
        /\ HasRow(users, h[hh].uid)
        /\ h[hh].uid # h[hh].actor

\* C2 as stated: promote(target, owner) is refused with RankConflict to a sender
\* whose role is administrator and granted to a sender whose role is owner,
\* after which the target's stored role is owner.
C2_OwnerMayPromoteToOwner ==
    \A hh \in Handlers :
        ( /\ h[hh].cmd = "promote"
          /\ h[hh].pc = "done"
          /\ Len(h[hh].args) >= 2
          /\ IsNumeric(h[hh].args[1])
          /\ HasRow(users, int(h[hh].args[1]))
          /\ Lower(h[hh].args[2]) = "owner" )
        => LET p == get_role_priority(get_user_role(h[hh].actor, TRUE)) IN
           /\ p = 3 => h[hh].result = "RankConflict"
           /\ p = 4 => /\ h[hh].result = "Ok"
                       /\ users[int(h[hh].args[1])].role = "owner"

\* C2 amended: promote(target, owner) leaves the users table as it was for
\* every sender; a sender that passed the admin check is refused with
\* RankConflict, be its role administrator or owner, and the only other
\* outcome is the refusal of the admin check itself.
C2_PromoteToOwnerRefused ==
    [][\A hh \in Handlers :
          ( /\ h[hh].cmd = "promote"
            /\ Returns(hh)
            /\ Len(h[hh].args) >= 2
            /\ IsNumeric(h[hh].args[1])
            /\ Lower(h[hh].args[2]) = "owner" )
          => /\ users' = users
             /\ \/ h'[hh].result = "RankConflict"
                \/ h'[hh].result = "InsufficientPrivilege" /\ h[hh].pc = "check_admin"
             /\ h[hh].pc = "get_user_role" => h'[hh].result = "RankConflict"
             /\ tgStatus[h[hh].actor] \notin {"administrator", "creator"}
                   => h'[hh].result = "InsufficientPrivilege"
      ]_vars

\* the chat's creator, without a row, asked for owner and was refused
C2_Witness ==
    \E hh \in Handlers :
        /\ h[hh].cmd = "promote"
        /\ h[hh].pc = "done"
        /\ Len(h[hh].args) = 2
        /\ Lower(h[hh].args[2]) = "owner"
        /\ tgStatus[h[hh].actor] = "creator"
        /\ h[hh].role = "creator"
        /\ h[hh].result = "RankConflict"
        /\ HasRow(users, h[hh].uid)
        /\ users[h[hh].uid].role # "owner"

\* C3 as stated: an administrative command of a sender whose resolved role (the
\* stored role, the platform status only without a row) ranks below
\* administrator ends with InsufficientPrivilege.
C3_DeniedByResolvedRole ==
    \A hh \in Handlers :
        ( /\ h[hh].cmd \in AdminCommands
          /\ h[hh].pc = "done"
          /\ get_role_priority(get_user_role(h[hh].actor, TRUE)) < 3 )
        => h[hh].result = "InsufficientPrivilege"

\* C3 amended: an administrative command of a sender whose platform status is
\* neither administrator nor creator ends with InsufficientPrivilege, and the
\* store and the platform stay as they were; the stored role plays no part.
C3_DeniedByPlatformStatus ==
    [][\A hh \in Handlers :
          ( /\ h[hh].cmd \in AdminCommands
            /\ h[hh].pc = "check_admin"
            /\ Steps(hh)
            /\ tgStatus[h[hh].actor] \notin {"administrator", "creator"} )
          => /\ h'[hh].pc = "done"
             /\ h'[hh].result = "InsufficientPrivilege"
             /\ h'[hh].msgs = <<"InsufficientPrivilege">>
             /\ UNCHANGED <<dbvars, platform>>
      ]_vars

\* a sender promoted to moderator in the store, a plain member on the platform,
\* was refused the lockdown
C3_Witness ==
    \E hh \in Handlers :
        /\ h[hh].cmd = "lockdown"
        /\ h[hh].args = <<"on">>
        /\ h[hh].pc = "done"
        /\ h[hh].result = "InsufficientPrivilege"
        /\ tgStatus[h[hh].actor] = "member"
        /\ HasRow(users, h[hh].actor)
        /\ users[h[hh].actor].role = "moderator"
        /\ ~lockdown

\* C4: under every interleaving, each step changes a stored warning count by
\* the number of warn handlers that get past their UPDATE on that row in the
\* step (one or none), so N concurrent warns add exactly N.
C4_NoLostWarning ==
    [][\A u \in Users :
          HasRow(users, u) =>
             /\ HasRow(users', u)
             /\ users'[u].warnings = users[u].warnings +
                   Cardinality({hh \in Handlers :
                                   /\ h[hh].cmd = "warn"
                                   /\ h[hh].pc = "check_admin"
                                   /\ h'[hh].pc = "reply_warn"
                                   /\ h'[hh].uid = u})
      ]_vars

\* two warn handlers on the same row are in flight after their UPDATEs, and the
\* row holds both warnings
C4_Witness ==
    \E h1, h2 \in Handlers :
        /\ h1 # h2
        /\ h[h1].cmd = "warn" /\ h[h2].cmd = "warn"
        /\ h[h1].pc = "reply_warn" /\ h[h2].pc = "reply_warn"
        /\ h[h1].uid = h[h2].uid
        /\ h[h1].n = 1 /\ h[h2].n = 2
        /\ users[h[h1].uid].warnings = 2

\* C5 as stated: the automatic ban is attempted only by the warn that brings
\* the count to 3, not at 2 and not again at 4.
C5_EscalatesOnlyAtThree ==
    \A hh \in Handlers :
        h[hh].cmd = "warn" /\ h[hh].pc = "ban_chat_member" => h[hh].n = 3

\* C5 amended: warned one update after the other from a fresh row, a warn
\* attempts the automatic ban exactly when it brings the count to 3 or more:
\* not at 1 or 2, at 3, and again at 4.
C5_EscalatesFromThree ==
    [][\A hh \in Handlers :
          h[hh].cmd = "warn" /\ h[hh].pc = "reply_warn" /\ Steps(hh)
          => /\ h[hh].n = users[h[hh].uid].warnings
             /\ h[hh].n >= 3 => h'[hh].pc = "ban_chat_member"
             /\ h[hh].n < 3 => h'[hh].pc = "done"
      ]_vars

\* the fourth warning of a row is about to try the automatic ban again
C5_Witness ==
    \E hh \in Handlers :
        /\ h[hh].cmd = "warn"
        /\ h[hh].pc = "ban_chat_member"
        /\ h[hh].n = 4
        /\ users[h[hh].uid].warnings = 4

\* C6: of the warns on a fresh row, taken one after the other, the first two
\* make no ban attempt and the third reports the count 3 and calls the
\* platform's ban for the target.
C6_ThirdWarnEscalates ==
    \A hh \in Handlers :
        h[hh].cmd = "warn" /\ h[hh].result \in {"Ok", "AutoBanned", "AutoBanFailed"}
        => /\ h[hh].n = users[h[hh].uid].warnings
           /\ h[hh].n >= 1
           /\ h[hh].msgs[1] = "Warned"
           /\ h[hh].n < 3 => /\ h[hh].pc \in {"reply_warn", "done"}
                             /\ h[hh].result = "Ok"
                             /\ h[hh].uid \notin banned
           /\ h[hh].n = 3 /\ h[hh].pc = "done" =>
                 h[hh].result \in {"AutoBanned", "AutoBanFailed"}
           /\ h[hh].result = "AutoBanned" => h[hh].uid \in banned

\* the third warn has returned after the platform banned the target
C6_Witness ==
    \E hh \in Handlers :
        /\ h[hh].cmd = "warn"
        /\ h[hh].pc = "done"
        /\ h[hh].n = 3
        /\ h[hh].result = "AutoBanned"
        /\ h[hh].msgs = <<"Warned", "AutoBanned">>
        /\ h[hh].uid \in banned

\* C7: a warn aimed at a user id without a row returns at once with
\* UnknownMember (or with the refusal of the admin check): no row appears, no
\* count changes and the platform's ban is not called.
C7_WarnUnknownMember ==
    [][\A hh \in Handlers :
          ( /\ h[hh].cmd = "warn"
            /\ h[hh].pc = "check_admin"
            /\ Steps(hh)
            /\ HasTarget(hh)
            /\ ~HasRow(users, int(h[hh].args[1])) )
          => /\ users' = users
             /\ banned' = banned
             /\ h'[hh].pc = "done"
             /\ h'[hh].result \in {"UnknownMember", "InsufficientPrivilege"}
             /\ tgStatus[h[hh].actor] \notin {"administrator", "creator"}
                   => h'[hh].result = "InsufficientPrivilege"
             /\ h'[hh].msgs = <<h'[hh].result>>
      ]_vars

\* an admin's warn at an unregistered user was answered with UnknownMember
C7_Witness ==
    \E hh \in Handlers :
        /\ h[hh].cmd = "warn"
        /\ h[hh].pc = "done"
        /\ h[hh].result = "UnknownMember"
        /\ h[hh].uid \in Users
        /\ ~HasRow(users, h[hh].uid)
        /\ banned = {}

\* C8: a warn adds one to the stored count and keeps the role, and nothing the
\* handler does afterwards, a failed automatic ban included, touches the row:
\* the count stays at the earlier count plus one.
C8_WarningKeptWhenBanFails ==
    [][\A hh \in Handlers :
          h[hh].cmd = "warn" /\ Steps(hh) =>
             /\ h[hh].pc = "check_admin" /\ h'[hh].pc = "reply_warn" =>
                   /\ users'[h'[hh].uid].warnings = users[h'[hh].uid].warnings + 1
                   /\ users'[h'[hh].uid].role = users[h'[hh].uid].role
                   /\ h'[hh].n = users[h'[hh].uid].warnings + 1
             /\ h[hh].pc \in {"reply_warn", "ban_chat_member"} =>
                   /\ users' = users
                   /\ users'[h[hh].uid].warnings = h[hh].n
      ]_vars

\* the automatic ban failed and the third warning is still in the row
C8_Witness ==
    \E hh \in Handlers :
        /\ h[hh].cmd = "warn"
        /\ h[hh].pc = "done"
        /\ h[hh].result = "AutoBanFailed"
        /\ h[hh].n = 3
        /\ users[h[hh].uid].warnings = 3
        /\ users[h[hh].uid].role = "member"
        /\ h[hh].uid \notin banned

\* C9: a demote that goes through takes the target one priority level down,
\* administrator (or admin) to moderator, moderator to member, member to
\* member, and touches no other row or column; a demote of a user id without
\* a row returns UnknownMember (past the admin check) and changes nothing.
C9_DemoteOneLevelDown ==
    [][\A hh \in Handlers :
          h[hh].cmd = "demote" /\ Returns(hh) /\ HasTarget(hh) =>
             LET t == int(h[hh].args[1]) IN
             /\ h'[hh].result = "Ok" =>
                   /\ HasRow(users, t)
                   /\ users' = [users EXCEPT ![t].role =
                                   CASE @ \in {"administrator", "admin"} -> "moderator"
                                     [] @ = "moderator" -> "member"
                                     [] OTHER -> "member"]
                   /\ get_role_priority(users'[t].role) =
                         IF get_role_priority(users[t].role) > 1
                         THEN get_role_priority(users[t].role) - 1 ELSE 1
             /\ ~HasRow(users, t) =>
                   /\ users' = users
                   /\ h'[hh].result \in {"UnknownMember", "InsufficientPrivilege"}
                   /\ h[hh].pc = "get_user_role" => h'[hh].result = "UnknownMember"
             /\ h'[hh].result = "UnknownMember" => ~HasRow(users, t) /\ users' = users
      ]_vars

\* an administrator has been demoted to moderator
C9_Witness ==
    \E hh \in Handlers :
        /\ h[hh].cmd = "demote"
        /\ h[hh].pc = "done"
        /\ h[hh].result = "Ok"
        /\ users[h[hh].uid].role = "moderator"

\* C10: a demote writes the target's role only when the target's priority is
\* strictly below the priority of the sender's role; a target at or above it
\* is refused with RankConflict (unless the admin check already refused) and
\* its role stays.
C10_DemoteOnlyBelowOwnRank ==
    [][\A hh \in Handlers :
          h[hh].cmd = "demote" /\ Steps(hh) /\ HasTarget(hh) =>
             LET t == int(h[hh].args[1])
                 a == get_role_priority(get_user_role(h[hh].actor, TRUE)) IN
             /\ users' # users \/ h'[hh].result = "Ok" =>
                   HasRow(users, t) /\ get_role_priority(users[t].role) < a
             /\ HasRow(users, t) /\ get_role_priority(users[t].role) >= a =>
                   /\ users' = users
                   /\ h'[hh].pc = "done" =>
                         \/ h'[hh].result = "RankConflict"
                         \/ h'[hh].result = "InsufficientPrivilege" /\ h[hh].pc = "check_admin"
      ]_vars

\* a sender was refused the demote of another user of its own level
C10_Witness ==
    \E hh \in Handlers :
        /\ h[hh].cmd = "demote"
        /\ h[hh].pc = "done"
        /\ h[hh].result = "RankConflict"
        /\ h[hh].uid # h[hh].actor
        /\ HasRow(users, h[hh].actor)
        /\ HasRow(users, h[hh].uid)
        /\ get_role_priority(users[h[hh].uid].role) = get_role_priority(users[h[hh].actor].role)

\* C11 as stated: once an admin's mute of a target has gone to the platform,
\* a mute of the target is on record and runs into the future, also when the
\* platform call failed.  The platform's restriction is the only record of a
\* mute there is, cmd_mute writes nothing to the store.
C11_MuteRecordedDespiteFailure ==
    \A hh \in Handlers :
        h[hh].cmd = "mute" /\ h[hh].pc = "done" /\ h[hh].result \in {"Ok", "Failed"}
        => /\ h[hh].uid \in DOMAIN muted
           /\ muted[h[hh].uid] > 0

\* C13 as stated: when /start or a plain message of a user has been handled,
\* the user has its Membership, with role member and no warnings when the
\* store holds what registration alone has put there.
C13_EnsureCreatesMembership ==
    \A hh \in Handlers :
        h[hh].cmd \in {"start", "message"} /\ h[hh].pc = "done"
        => /\ HasRow(users, h[hh].actor)
           /\ users[h[hh].actor].role = "member"
           /\ users[h[hh].actor].warnings = 0

\* the role spellings get_role_priority knows, after lower()
KnownRoles ==
    {"owner", "creator", "superadmin", "administrator", "admin", "moderator",
     "member", "restricted"}

\* C14: get_role_priority answers every string with a priority that is not
\* negative: 4 for owner and creator, 3 for administrator, admin and
\* superadmin, 2 for moderator, 1 for member, 0 for restricted, so that owner
\* ranks above administrator above moderator above member above restricted.
C14_PriorityTable ==
    \A hh \in Handlers :
        h[hh].cmd = "get_role_priority" /\ h[hh].pc = "done"
        => /\ h[hh].n \in 0..4
           /\ h[hh].role \in {"owner", "creator"} => h[hh].n = 4
           /\ h[hh].role \in {"administrator", "admin", "superadmin"} => h[hh].n = 3
           /\ h[hh].role = "moderator" => h[hh].n = 2
           /\ h[hh].role = "member" => h[hh].n = 1
           /\ h[hh].role = "restricted" => h[hh].n = 0
           /\ \A h2 \in Handlers :
                 h[h2].cmd = "get_role_priority" /\ h[h2].pc = "done"
                 /\ <<h[hh].role, h[h2].role>> \in
                       {<<"owner", "administrator">>, <<"administrator", "moderator">>,
                        <<"moderator", "member">>, <<"member", "restricted">>}
                 => h[hh].n > h[h2].n

\* moderator and member have both been ranked, moderator above member
C14_Witness ==
    \E h1, h2 \in Handlers :
        /\ h[h1].cmd = "get_role_priority" /\ h[h1].pc = "done"
        /\ h[h2].cmd = "get_role_priority" /\ h[h2].pc = "done"
        /\ h[h1].role = "moderator" /\ h[h2].role = "member"
        /\ h[h1].n = 2 /\ h[h2].n = 1

\* C15: a string outside the known spellings gets priority 1, member's, so
\* the comparison of a rank check comes out for it, against any other role,
\* as it does for member.
C15_UnknownRoleIsMember ==
    \A hh \in Handlers :
        ( /\ h[hh].cmd = "get_role_priority"
          /\ h[hh].pc = "done"
          /\ Lower(h[hh].role) \notin KnownRoles )
        => /\ h[hh].n = 1
           /\ \A h2 \in Handlers, hm \in Handlers :
                 ( /\ h[h2].cmd = "get_role_priority" /\ h[h2].pc = "done"
                   /\ h[hm].cmd = "get_role_priority" /\ h[hm].pc = "done"
                   /\ h[hm].role = "member" )
                 => /\ (h[hh].n >= h[h2].n) = (h[hm].n >= h[h2].n)
                    /\ (h[h2].n >= h[hh].n) = (h[h2].n >= h[hm].n)

\* the platform status 'kicked' has been ranked like member, next to a
\* moderator
C15_Witness ==
    \E h1, h2 \in Handlers :
        /\ h[h1].cmd = "get_role_priority" /\ h[h1].pc = "done"
        /\ h[h2].cmd = "get_role_priority" /\ h[h2].pc = "done"
        /\ h[h1].role = "kicked" /\ h[h1].n = 1
        /\ h[h2].role = "moderator"

\* C16: no step of a ban or an unban touches the store; their platform call
\* either succeeds or is answered to the sender with a Failed reply, and a
\* failed call leaves the set of banned users as it was.
C16_BanUnbanKeepStore ==
    [][\A hh \in Handlers :
          h[hh].cmd \in {"ban", "unban"} /\ Steps(hh) =>
             /\ UNCHANGED dbvars
             /\ h[hh].pc \in {"ban_chat_member", "unban_chat_member"} =>
                   /\ h'[hh].pc = "done"
                   /\ \/ /\ h'[hh].result = "Ok"
                         /\ h'[hh].msgs = <<"Ok">>
                         /\ (h[hh].uid \in banned') = (h[hh].cmd = "ban")
                      \/ /\ h'[hh].result = "Failed"
                         /\ h'[hh].msgs = <<"Failed">>
                         /\ banned' = banned
      ]_vars

\* the platform refused the ban of a user with warnings on record, and the
\* sender was told
C16_Witness ==
    \E hh \in Handlers :
        /\ h[hh].cmd = "ban"
        /\ h[hh].pc = "done"
        /\ h[hh].result = "Failed"
        /\ h[hh].msgs = <<"Failed">>
        /\ h[hh].uid \in Users
        /\ h[hh].uid \notin banned
        /\ HasRow(users, h[hh].uid)
        /\ users[h[hh].uid].warnings = 2

\* C17 as stated: no administrative command ends with an exception leaving
\* its handler, whatever its arguments.
C17_NoExceptionEscapes ==
    \A hh \in Handlers :
        h[hh].cmd \in AdminCommands /\ h[hh].pc = "done" => h[hh].result # "Exception"

\* C18 as stated: a warn that escalated has sent two replies when it returns,
\* the warning count and the outcome of the automatic ban.
C18_AutoBanOutcomeReported ==
    \A hh \in Handlers :
        ( /\ h[hh].cmd = "warn"
          /\ h[hh].pc = "done"
          /\ h[hh].result \in {"AutoBanned", "AutoBanFailed"} )
        => Len(h[hh].msgs) = 2 /\ h[hh].msgs[1] = "Warned"

\* C19 as stated: a promote or demote that goes through changes the stored
\* role of another user only when that user's stored priority is strictly
\* below the priority of the sender's role.
C19_NoActionAgainstPeerOrSuperior ==
    [][\A hh \in Handlers :
          ( /\ h[hh].cmd \in {"promote", "demote"}
            /\ Returns(hh)
            /\ h'[hh].result = "Ok"
            /\ HasTarget(hh)
            /\ int(h[hh].args[1]) # h[hh].actor
            /\ HasRow(users, int(h[hh].args[1]))
            /\ users'[int(h[hh].args[1])].role # users[int(h[hh].args[1])].role )
          => get_role_priority(users[int(h[hh].args[1])].role)
                < get_role_priority(get_user_role(h[hh].actor, TRUE))
      ]_vars

\* C20 as stated: a promote that goes through leaves the target's stored
\* priority at least as high as it was.
C20_PromoteNeverLowers ==
    [][\A hh \in Handlers :
          ( /\ h[hh].cmd = "promote"
            /\ Returns(hh)
            /\ h'[hh].result = "Ok"
            /\ HasTarget(hh)
            /\ HasRow(users, int(h[hh].args[1])) )
          => get_role_priority(users'[int(h[hh].args[1])].role)
                >= get_role_priority(users[int(h[hh].args[1])].role)
      ]_vars

\* C21: under every interleaving of promote and demote handlers, a demote that
\* goes through takes the target one level down from the role the row holds at
\* that moment and touches nothing else, and a stored role changes in no step
\* but the return of a promote or demote that went through; two demotes in
\* flight on an administrator therefore leave a member, as one after the
\* other would, never the moderator that two reads of the same role would give.
C21_DemotesLinearizable ==
    [][/\ \A hh \in Handlers :
             h[hh].cmd = "demote" /\ Returns(hh) /\ h'[hh].result = "Ok" =>
                LET t == h'[hh].uid IN
                /\ HasRow(users, t)
                /\ users' = [users EXCEPT ![t].role =
                                demote_role(get_role_priority(users[t].role) - 1)]
                /\ get_role_priority(users'[t].role) =
                      IF get_role_priority(users[t].role) > 1
                      THEN get_role_priority(users[t].role) - 1 ELSE 1
       /\ \A u \in Users :
             HasRow(users, u) /\ users'[u].role # users[u].role =>
                \E hh \in Handlers :
                   /\ h[hh].cmd \in {"promote", "demote"}
                   /\ Returns(hh)
                   /\ h'[hh].result = "Ok"
                   /\ h'[hh].uid = u
      ]_vars

\* two demotes of user 2 by a creator without a row, each resumed from the
\* await on its sender's role, have both gone through and the target is a member
C21_Witness ==
    \E h1, h2 \in Handlers :
        /\ h1 # h2
        /\ h[h1].cmd = "demote" /\ h[h2].cmd = "demote"
        /\ h[h1].pc = "done" /\ h[h2].pc = "done"
        /\ h[h1].result = "Ok" /\ h[h2].result = "Ok"
        /\ h[h1].uid = 2 /\ h[h2].uid = 2
        /\ h[h1].role = "creator" /\ h[h2].role = "creator"
        /\ ~HasRow(users, h[h1].actor) /\ ~HasRow(users, h[h2].actor)
        /\ HasRow(users, 2)
        /\ users[2].role = "member"
        /\ users[2].warnings = 0

C23_WarningsNeverDecrease ==
    [][\A u \in Users :
          /\ HasRow(users, u) =>
                /\ HasRow(users', u)
                /\ users'[u].warnings >= users[u].warnings
          /\ HasRow(users', u) => users'[u].warnings >= 0
      ]_vars

\* a user with two warnings has sent /start again, and the row still holds
\* both warnings
C23_Witness ==
    \E hh \in Handlers :
        /\ h[hh].cmd = "start"
        /\ h[hh].pc = "done"
        /\ HasRow(users, h[hh].actor)
        /\ users[h[hh].actor].warnings = 2

\* C24 as stated: a mute whose duration argument is a number at or below zero
\* never reaches the platform call; past the admin check it ends with
\* InvalidArgument.
C24_NonPositiveMuteRejected ==
    \A hh \in Handlers :
        ( /\ h[hh].cmd = "mute"
          /\ Len(h[hh].args) = 2
          /\ IsNumeric(h[hh].args[1])
          /\ IsNumeric(h[hh].args[2])
          /\ int(h[hh].args[2]) <= 0
          /\ h[hh].pc # "check_admin" )
        => /\ h[hh].pc = "done"
           /\ h[hh].result \in {"InvalidArgument", "InsufficientPrivilege"}

\* C25 as stated: a promote that returns success has set the stored role of
\* its target: the target had a row when the handler returned.
C25_PromoteUnknownIsNotFound ==
    [][\A hh \in Handlers :
          h[hh].cmd = "promote" /\ Returns(hh) /\ h'[hh].result = "Ok" =>
             HasRow(users, h'[hh].uid)
      ]_vars

\* C26: no row holds a role of owner priority; administrator is the highest
\* stored role.
C26_NoStoredOwner ==
    \A u \in Users :
        HasRow(users, u) => get_role_priority(users[u].role) < 4

\* the creator, without a row, asked for owner for a stored administrator and
\* was refused
C26_Witness ==
    \E hh \in Handlers :
        /\ h[hh].cmd = "promote"
        /\ Len(h[hh].args) = 2
        /\ h[hh].args[2] = "owner"
        /\ h[hh].pc = "done"
        /\ h[hh].result = "RankConflict"
        /\ h[hh].role = "creator"
        /\ HasRow(users, h[hh].uid)
        /\ users[h[hh].uid].role = "administrator"

\* C27: a promote or demote whose target is its own sender never leaves the
\* sender's row with a higher priority than before, and creates no row.
C27_NoSelfPromotion ==
    [][\A hh \in Handlers :
          ( /\ h[hh].cmd \in {"promote", "demote"}
            /\ Steps(hh)
            /\ HasTarget(hh)
            /\ int(h[hh].args[1]) = h[hh].actor ) =>
             LET a == h[hh].actor IN
             /\ HasRow(users', a) <=> HasRow(users, a)
             /\ HasRow(users, a) =>
                   get_role_priority(users'[a].role) <= get_role_priority(users[a].role)
      ]_vars

\* a stored administrator has promoted itself, to moderator
C27_Witness ==
    \E hh \in Handlers :
        /\ h[hh].cmd = "promote"
        /\ h[hh].pc = "done"
        /\ h[hh].result = "Ok"
        /\ h[hh].uid = h[hh].actor
        /\ h[hh].role = "administrator"
        /\ HasRow(users, h[hh].actor)
        /\ users[h[hh].actor].role = "moderator"

\* C28: an administrative handler whose admin check logged a lookup error
\* returns at once with the privileges reply and changes neither the store nor
\* the platform; a handler gets past the check only when the platform
\* answered with administrator or creator.
C28_AdminCheckFailsClosed ==
    [][\A hh \in Handlers :
          ( /\ h[hh].cmd \in AdminCommands
            /\ h[hh].pc = "check_admin"
            /\ Steps(hh) ) =>
             /\ h'[hh].log # <<>> =>
                   /\ h'[hh].log = <<"Admin check error">>
                   /\ h'[hh].pc = "done"
                   /\ h'[hh].result = "InsufficientPrivilege"
                   /\ h'[hh].msgs = <<"InsufficientPrivilege">>
                   /\ UNCHANGED <<dbvars, platform>>
             /\ h'[hh].result # "InsufficientPrivilege" =>
                   /\ h'[hh].log = <<>>
                   /\ tgStatus[h[hh].actor] \in {"administrator", "creator"}
      ]_vars

\* the creator's ban of user 2 was refused after the lookup of its status
\* raised, and nobody is banned
C28_Witness ==
    \E hh \in Handlers :
        /\ h[hh].cmd = "ban"
        /\ h[hh].args = <<"2">>
        /\ h[hh].pc = "done"
        /\ h[hh].result = "InsufficientPrivilege"
        /\ h[hh].log = <<"Admin check error">>
        /\ tgStatus[h[hh].actor] = "creator"
        /\ banned = {}

====
